---- MODULE Spec2Model ----
(***************************************************************************)
(* Model of sunverse.objects.notification.Notification and                 *)
(* sunverse.objects.live.Live: value objects built from a decoded JSON     *)
(* payload, with the derived properties post_id, post_type and author_id.  *)
(*                                                                         *)
(* Python values are modelled as follows.  A dict is a function whose      *)
(* domain is its set of keys, a list is a sequence, and every leaf is a    *)
(* tagged record: [t |-> "int", v |-> 5], [t |-> "str", v |-> <<"a">>]     *)
(* (a str is the sequence of its characters), [t |-> "bool", v |-> TRUE],  *)
(* [t |-> "NoneType"].  An operation either returns a value or raises; its *)
(* result is the record [exc |-> <exception or "none">, value |-> ...].    *)
(***************************************************************************)
EXTENDS Integers, Sequences, FiniteSets, TLC

VARIABLES data, objs, last

vars == <<data, objs, last>>

----------------------------------------------------------------------------
(* Bounds of the model. *)

\* Activity ids are drawn from -2..MaxId.
MaxId == 1

\* A messageId is the concatenation of at most MaxParts fragments.
MaxParts == 3

\* At most MaxMissing keys are removed from a complete payload.
MaxMissing == 3

\* The authors list holds at most MaxAuthors elements.
MaxAuthors == 2

----------------------------------------------------------------------------
(* Python values. *)

PyInt(n) == [t |-> "int", v |-> n]

PyStr(s) == [t |-> "str", v |-> s]

PyBool(b) == [t |-> "bool", v |-> b]

None == [t |-> "NoneType"]

\* What an operation that raised leaves in place of a value.
NoValue == [t |-> "no value"]

Return(v) == [exc |-> "none", value |-> v]

Raise(e) == [exc |-> e, value |-> NoValue]

\* dict.get(key): the value under key, None when the key is absent.
DictGet(d, key) == IF key \in DOMAIN d THEN d[key] ELSE None

\* `if d.get(key):` for a key that holds a list when present: the absent
\* key gives None, which is false, and a list is true when it is not empty.
GetIsTruthy(d, key) == key \in DOMAIN d /\ Len(d[key]) > 0

\* Whether d[p[1]][p[2]]... can be evaluated without a KeyError.
RECURSIVE HasPath(_, _)
HasPath(d, p) ==
  IF p = <<>> THEN TRUE
  ELSE /\ Head(p) \in DOMAIN d
       /\ HasPath(d[Head(p)], Tail(p))

\* d[p[1]][p[2]]..., for a path that HasPath.
RECURSIVE Lookup(_, _)
Lookup(d, p) == IF p = <<>> THEN d ELSE Lookup(d[Head(p)], Tail(p))

\* hash() of an int on a build whose hash modulus is 2^31 - 1: the value
\* reduced modulo the modulus with the sign kept, and -1 replaced by -2.
PyHashInt(n) ==
  LET m == 2147483647
      h == IF n >= 0 THEN n % m ELSE -((-n) % m)
  IN  IF h = -1 THEN -2 ELSE h

----------------------------------------------------------------------------
(* Notification.__init__ *)

\* The subscript chains of __init__, in the order it evaluates them.
RequiredPaths ==
  << <<"activityId">>, <<"read">>, <<"title">>,
     <<"message", "values", "ko">>, <<"message", "values", "ja">>,
     <<"message", "values", "en">>, <<"logoImageUrl">>, <<"webUrl">>,
     <<"time">>, <<"count">>, <<"community", "communityId">> >>

Notification_init_GetTime(d) ==
  IF \E i \in 1..Len(RequiredPaths) :
       /\ RequiredPaths[i] # <<"time">>
       /\ ~HasPath(d, RequiredPaths[i])
  THEN Raise("KeyError")
  ELSE Return([class |-> "Notification",
               data |-> d,
               id |-> d["activityId"],
               is_read |-> d["read"],
               title |-> d["title"],
               message_ko |-> d["message"]["values"]["ko"],
               message_ja |-> d["message"]["values"]["ja"],
               message_en |-> d["message"]["values"]["en"],
               logo_image_url |-> d["logoImageUrl"],
               image_url |-> DictGet(d, "imageUrl"),
               web_url |-> d["webUrl"],
               time_created |-> DictGet(d, "time"),
               count |-> d["count"],
               community_id |-> d["community"]["communityId"]])

Notification_init_RequireImage(d) ==
  IF \/ \E i \in 1..Len(RequiredPaths) : ~HasPath(d, RequiredPaths[i])
     \/ "imageUrl" \notin DOMAIN d
  THEN Raise("KeyError")
  ELSE Return([class |-> "Notification",
               data |-> d,
               id |-> d["activityId"],
               is_read |-> d["read"],
               title |-> d["title"],
               message_ko |-> d["message"]["values"]["ko"],
               message_ja |-> d["message"]["values"]["ja"],
               message_en |-> d["message"]["values"]["en"],
               logo_image_url |-> d["logoImageUrl"],
               image_url |-> d["imageUrl"],
               web_url |-> d["webUrl"],
               time_created |-> d["time"],
               count |-> d["count"],
               community_id |-> d["community"]["communityId"]])

\* Notification(d): a subscript of a missing key raises KeyError and no
\* object is returned; imageUrl alone is read with dict.get.
Notification_init(d) ==
  IF \E i \in 1..Len(RequiredPaths) : ~HasPath(d, RequiredPaths[i])
  THEN Raise("KeyError")
  ELSE Return([class |-> "Notification",
               data |-> d,
               id |-> d["activityId"],
               is_read |-> d["read"],
               title |-> d["title"],
               message_ko |-> d["message"]["values"]["ko"],
               message_ja |-> d["message"]["values"]["ja"],
               message_en |-> d["message"]["values"]["en"],
               logo_image_url |-> d["logoImageUrl"],
               image_url |-> DictGet(d, "imageUrl"),
               web_url |-> d["webUrl"],
               time_created |-> d["time"],
               count |-> d["count"],
               community_id |-> d["community"]["communityId"]])

----------------------------------------------------------------------------
(* Notification.__eq__ and Notification.__hash__ *)

\* isinstance(other, self.__class__) for self a Notification.
IsNotification(other) ==
  /\ "class" \in DOMAIN other
  /\ other.class = "Notification"

Notification_eq_ReturnsFalse(self, other) ==
  IF IsNotification(other)
  THEN Return(PyBool(self.id = other.id))
  ELSE Return(PyBool(FALSE))

Notification_eq_Title(self, other) ==
  IF IsNotification(other)
  THEN Return(PyBool(self.id = other.id /\ self.title = other.title))
  ELSE Raise("NotImplementedError")

Notification_eq(self, other) ==
  IF IsNotification(other)
  THEN Return(PyBool(self.id = other.id))
  ELSE Raise("NotImplementedError")

Notification_hash_Time(self) ==
  Return(PyInt(PyHashInt(self.id.v + self.time_created.v)))

Notification_hash(self) == Return(PyInt(PyHashInt(self.id.v)))

----------------------------------------------------------------------------
(* Notification.post_id *)

Digits == {"0", "1", "2", "3", "4", "5", "6", "7", "8", "9"}

NoMatch == [start |-> 0, end |-> 0]

\* The last index of the run of digits of s that starts at index i.
RECURSIVE DigitRunEnd(_, _)
DigitRunEnd(s, i) ==
  IF i + 1 <= Len(s) /\ s[i + 1] \in Digits THEN DigitRunEnd(s, i + 1) ELSE i

\* re.search(r"([\d]-\d+)", s) from index i on: the leftmost index at which
\* a digit, a hyphen and a digit follow one another, matched up to the end
\* of the run of digits (\d+ is greedy).
RECURSIVE SearchDashPattern(_, _)
SearchDashPattern(s, i) ==
  IF i + 2 > Len(s) THEN NoMatch
  ELSE IF s[i] \in Digits /\ s[i + 1] = "-" /\ s[i + 2] \in Digits
       THEN [start |-> i, end |-> DigitRunEnd(s, i + 2)]
       ELSE SearchDashPattern(s, i + 1)

\* re.search(r"\d+", s) from index i on.
RECURSIVE SearchDigits(_, _)
SearchDigits(s, i) ==
  IF i > Len(s) THEN NoMatch
  ELSE IF s[i] \in Digits
       THEN [start |-> i, end |-> DigitRunEnd(s, i)]
       ELSE SearchDigits(s, i + 1)

\* match.group(0)
Group0(s, m) == PyStr(SubSeq(s, m.start, m.end))

post_id_DigitsFirst(self) ==
  IF "messageId" \notin DOMAIN self.data THEN Raise("KeyError")
  ELSE LET s == self.data["messageId"].v
           digits == SearchDigits(s, 1)
           match == IF digits = NoMatch THEN SearchDashPattern(s, 1)
                    ELSE digits
       IN  IF match = NoMatch THEN Raise("AttributeError")
           ELSE Return(Group0(s, match))

post_id_ReturnsNone(self) ==
  IF "messageId" \notin DOMAIN self.data THEN Return(None)
  ELSE LET s == self.data["messageId"].v
           dash == SearchDashPattern(s, 1)
           match == IF dash = NoMatch THEN SearchDigits(s, 1) ELSE dash
       IN  IF match = NoMatch THEN Return(None)
           ELSE Return(Group0(s, match))

\* The messageId subscript raises KeyError when the key is absent; when
\* neither pattern matches, match is None and match.group raises
\* AttributeError.
post_id(self) ==
  IF "messageId" \notin DOMAIN self.data THEN Raise("KeyError")
  ELSE LET s == self.data["messageId"].v
           dash == SearchDashPattern(s, 1)
           match == IF dash = NoMatch THEN SearchDigits(s, 1) ELSE dash
       IN  IF match = NoMatch THEN Raise("AttributeError")
           ELSE Return(Group0(s, match))

----------------------------------------------------------------------------
(* Notification.post_type *)

\* A member of the enum sunverse.enums.PostTypes.
PostTypes(name) == [t |-> "PostTypes", v |-> name]

NOT_IMPLEMENTED ==
  PyStr(<<"N", "O", "T", " ", "I", "M", "P", "L", "E", "M", "E", "N", "T", "E", "D">>)

post_types_LiveFirst ==
  << [key |-> <<"A", "R", "T", "I", "S", "T", "_", "L", "I", "V", "E", "_", "O", "N", "_", "A", "I", "R">>,
      value |-> PostTypes("LIVE")],
     [key |-> <<"T", "_", "F", "E", "E", "D", "_", "C", "O", "M", "M", "E", "N", "T">>,
      value |-> PostTypes("USER_POST_COMMENT")],
     [key |-> <<"S", "T", "_", "F", "E", "E", "D", "_", "C", "O", "M", "M", "E", "N", "T">>,
      value |-> PostTypes("USER_POST_COMMENT")],
     [key |-> <<"_", "M", "E", "D", "I", "A", "_", "C", "O", "M", "M", "E", "N", "T">>,
      value |-> PostTypes("MEDIA_COMMENT")],
     [key |-> <<"_", "M", "O", "M", "E", "N", "T", "_", "C", "O", "M", "M", "E", "N", "T">>,
      value |-> PostTypes("MOMENT_COMMENT")],
     [key |-> <<"M", "O", "M", "E", "N", "T", "_", "C", "O", "M", "M", "E", "N", "T">>,
      value |-> PostTypes("MOMENT_COMMENT")],
     [key |-> <<"A", "R", "T", "I", "S", "T", "_", "C", "O", "M", "M", "E", "N", "T">>,
      value |-> PostTypes("ARTIST_POST_COMMENT")],
     [key |-> <<"A", "R", "T", "I", "S", "T", "_", "P", "O", "S", "T">>,
      value |-> PostTypes("POST")],
     [key |-> <<"A", "R", "T", "I", "S", "T", "_", "M", "O", "M", "E", "N", "T">>,
      value |-> PostTypes("MOMENT")],
     [key |-> <<"C", "O", "M", "M", "U", "N", "I", "T", "Y", "_", "M", "E", "D", "I", "A">>,
      value |-> PostTypes("MEDIA")],
     [key |-> <<"N", "O", "T", "I", "C", "E">>,
      value |-> PostTypes("NOTICE")],
     [key |-> <<"C", "O", "M", "M", "U", "N", "I", "T", "Y", "_", "A", "N", "N", "I", "V", "E", "R", "S", "A", "R", "Y">>,
      value |-> PostTypes("BIRTHDAY")] >>

\* The dict literal post_types, in insertion order (the order a dict is
\* iterated in).
post_types ==
  << [key |-> <<"T", "_", "F", "E", "E", "D", "_", "C", "O", "M", "M", "E", "N", "T">>,
      value |-> PostTypes("USER_POST_COMMENT")],
     [key |-> <<"S", "T", "_", "F", "E", "E", "D", "_", "C", "O", "M", "M", "E", "N", "T">>,
      value |-> PostTypes("USER_POST_COMMENT")],
     [key |-> <<"_", "M", "E", "D", "I", "A", "_", "C", "O", "M", "M", "E", "N", "T">>,
      value |-> PostTypes("MEDIA_COMMENT")],
     [key |-> <<"_", "M", "O", "M", "E", "N", "T", "_", "C", "O", "M", "M", "E", "N", "T">>,
      value |-> PostTypes("MOMENT_COMMENT")],
     [key |-> <<"M", "O", "M", "E", "N", "T", "_", "C", "O", "M", "M", "E", "N", "T">>,
      value |-> PostTypes("MOMENT_COMMENT")],
     [key |-> <<"A", "R", "T", "I", "S", "T", "_", "C", "O", "M", "M", "E", "N", "T">>,
      value |-> PostTypes("ARTIST_POST_COMMENT")],
     [key |-> <<"A", "R", "T", "I", "S", "T", "_", "P", "O", "S", "T">>,
      value |-> PostTypes("POST")],
     [key |-> <<"A", "R", "T", "I", "S", "T", "_", "M", "O", "M", "E", "N", "T">>,
      value |-> PostTypes("MOMENT")],
     [key |-> <<"A", "R", "T", "I", "S", "T", "_", "L", "I", "V", "E", "_", "O", "N", "_", "A", "I", "R">>,
      value |-> PostTypes("LIVE")],
     [key |-> <<"C", "O", "M", "M", "U", "N", "I", "T", "Y", "_", "M", "E", "D", "I", "A">>,
      value |-> PostTypes("MEDIA")],
     [key |-> <<"N", "O", "T", "I", "C", "E">>,
      value |-> PostTypes("NOTICE")],
     [key |-> <<"C", "O", "M", "M", "U", "N", "I", "T", "Y", "_", "A", "N", "N", "I", "V", "E", "R", "S", "A", "R", "Y">>,
      value |-> PostTypes("BIRTHDAY")] >>

\* key in s, for two strs.
Contains(s, key) ==
  \E i \in 1..(Len(s) - Len(key) + 1) : SubSeq(s, i, i + Len(key) - 1) = key

\* The for loop over post_types.items() from its n-th item on, and the
\* return that follows the loop.
RECURSIVE PostTypeLoop(_, _)
PostTypeLoop(s, n) ==
  IF n > Len(post_types) THEN NOT_IMPLEMENTED
  ELSE IF Contains(s, post_types[n].key) THEN post_types[n].value
       ELSE PostTypeLoop(s, n + 1)

post_type(self) ==
  IF "messageId" \notin DOMAIN self.data THEN Raise("KeyError")
  ELSE Return(PostTypeLoop(self.data["messageId"].v, 1))

----------------------------------------------------------------------------
(* Notification.author_id *)

author_id_GetMemberId(self) ==
  IF GetIsTruthy(self.data, "authors")
  THEN Return(DictGet(self.data["authors"][1], "memberId"))
  ELSE Return(None)

author_id_Last(self) ==
  IF GetIsTruthy(self.data, "authors")
  THEN LET authors == self.data["authors"]
       IN  IF "memberId" \in DOMAIN authors[Len(authors)]
           THEN Return(authors[Len(authors)]["memberId"])
           ELSE Raise("KeyError")
  ELSE Return(None)

\* authors[0] is the first element of the list, index 1 of the sequence.
author_id(self) ==
  IF GetIsTruthy(self.data, "authors")
  THEN IF "memberId" \in DOMAIN self.data["authors"][1]
       THEN Return(self.data["authors"][1]["memberId"])
       ELSE Raise("KeyError")
  ELSE Return(None)

----------------------------------------------------------------------------
(* Live.__init__ *)

\* WeverseMedia.__init__, which Live.__init__ calls first: it either fills
\* the fields of the base record or raises on a payload it cannot read.
WeverseMedia_init(d, baseRaises) ==
  IF baseRaises THEN Raise("KeyError")
  ELSE Return([class |-> "Live", data |-> d])

Live_init_GetCount(d, baseRaises) ==
  LET base == WeverseMedia_init(d, baseRaises)
  IN  IF base.exc # "none" THEN base
      ELSE Return([class |-> "Live",
                   data |-> d,
                   message_count |->
                     IF HasPath(d, <<"extension", "mediaInfo", "chat", "messageCount">>)
                     THEN d["extension"]["mediaInfo"]["chat"]["messageCount"]
                     ELSE None])

Live_init(d, baseRaises) ==
  LET base == WeverseMedia_init(d, baseRaises)
  IN  IF base.exc # "none" THEN base
      ELSE IF ~HasPath(d, <<"extension", "mediaInfo", "chat", "messageCount">>)
           THEN Raise("KeyError")
           ELSE Return([class |-> "Live",
                        data |-> d,
                        message_count |->
                          d["extension"]["mediaInfo"]["chat"]["messageCount"]])

----------------------------------------------------------------------------
(* Payloads. *)

\* The strs the payloads of the model are made of, as character sequences.
Str_T_FEED_COMMENT ==
  <<"T", "_", "F", "E", "E", "D", "_", "C", "O", "M", "M", "E", "N", "T">>

Str_ST_FEED_COMMENT ==
  <<"S", "T", "_", "F", "E", "E", "D", "_", "C", "O", "M", "M", "E", "N", "T">>

Str__MEDIA_COMMENT ==
  <<"_", "M", "E", "D", "I", "A", "_", "C", "O", "M", "M", "E", "N", "T">>

Str__MOMENT_COMMENT ==
  <<"_", "M", "O", "M", "E", "N", "T", "_", "C", "O", "M", "M", "E", "N", "T">>

Str_MOMENT_COMMENT ==
  <<"M", "O", "M", "E", "N", "T", "_", "C", "O", "M", "M", "E", "N", "T">>

Str_ARTIST_COMMENT ==
  <<"A", "R", "T", "I", "S", "T", "_", "C", "O", "M", "M", "E", "N", "T">>

Str_ARTIST_POST ==
  <<"A", "R", "T", "I", "S", "T", "_", "P", "O", "S", "T">>

Str_ARTIST_MOMENT ==
  <<"A", "R", "T", "I", "S", "T", "_", "M", "O", "M", "E", "N", "T">>

Str_ARTIST_LIVE_ON_AIR ==
  <<"A", "R", "T", "I", "S", "T", "_", "L", "I", "V", "E", "_", "O", "N", "_", "A", "I", "R">>

Str_COMMUNITY_MEDIA ==
  <<"C", "O", "M", "M", "U", "N", "I", "T", "Y", "_", "M", "E", "D", "I", "A">>

Str_NOTICE ==
  <<"N", "O", "T", "I", "C", "E">>

Str_COMMUNITY_ANNIVERSARY ==
  <<"C", "O", "M", "M", "U", "N", "I", "T", "Y", "_", "A", "N", "N", "I", "V", "E", "R", "S", "A", "R", "Y">>

Str_0_12 == <<"0", "-", "1", "2">>

Str_123 == <<"1", "2", "3">>

Str__COMMENT == <<"_", "C", "O", "M", "M", "E", "N", "T">>

Str_0_12_MEDIA_COMMENT ==
  <<"0", "-", "1", "2", "_", "M", "E", "D", "I", "A", "_", "C", "O", "M", "M", "E", "N", "T">>

Str_NOTICE123 == <<"N", "O", "T", "I", "C", "E", "1", "2", "3">>

\* The pieces a messageId of the model is put together from: digits and
\* hyphens, the markers of post_types, and pieces that make up a marker
\* only together with a neighbour (S + T_FEED_COMMENT, _ + MOMENT_COMMENT,
\* ARTIST_MOMENT + _COMMENT, COMMUNITY_MEDIA + _COMMENT).
Fragments ==
  { Str_0_12, <<"1">>, <<"-">>, Str_123, <<"S">>, <<"_">>, Str__COMMENT,
    Str_T_FEED_COMMENT, Str__MEDIA_COMMENT, Str_MOMENT_COMMENT,
    Str_ARTIST_COMMENT, Str_ARTIST_POST, Str_ARTIST_MOMENT,
    Str_ARTIST_LIVE_ON_AIR, Str_COMMUNITY_MEDIA, Str_NOTICE,
    Str_COMMUNITY_ANNIVERSARY }

\* The concatenations of at most n fragments.
RECURSIVE MessageIds(_)
MessageIds(n) ==
  IF n = 0 THEN {<<>>}
  ELSE LET shorter == MessageIds(n - 1)
       IN  shorter \cup {s \o f : s \in shorter, f \in Fragments}

\* The activity ids of the model; -1 and -2 are the two ints with one hash.
Ids == (-2)..MaxId

\* The groups of fields in which a payload may differ from the default one.
FieldGroups ==
  {"read", "title", "message", "urls", "time", "count", "community",
   "messageId", "authors"}

\* A complete notification payload with the given activityId, holding the
\* second value of every field whose group is in alt and the first value
\* of every other field.
NotificationPayload(id, alt) ==
  [activityId |-> PyInt(id),
   read |-> PyBool("read" \in alt),
   title |-> PyStr(IF "title" \in alt THEN <<"T", "X", "T">> ELSE <<"B", "T", "S">>),
   message |->
     [values |->
        [ko |-> PyStr(IF "message" \in alt THEN <<"k", "2">> ELSE <<"k", "1">>),
         ja |-> PyStr(IF "message" \in alt THEN <<"j", "2">> ELSE <<"j", "1">>),
         en |-> PyStr(IF "message" \in alt THEN <<"e", "2">> ELSE <<"e", "1">>)]],
   logoImageUrl |-> PyStr(IF "urls" \in alt THEN <<"l", "2">> ELSE <<"l", "1">>),
   imageUrl |-> PyStr(IF "urls" \in alt THEN <<"i", "2">> ELSE <<"i", "1">>),
   webUrl |-> PyStr(IF "urls" \in alt THEN <<"w", "2">> ELSE <<"w", "1">>),
   time |-> PyInt(IF "time" \in alt THEN 1700000001 ELSE 1600000000),
   count |-> PyInt(IF "count" \in alt THEN 3 ELSE 0),
   community |-> [communityId |-> PyInt(IF "community" \in alt THEN 14 ELSE 2)],
   messageId |-> PyStr(IF "messageId" \in alt THEN Str_NOTICE123
                       ELSE Str_0_12_MEDIA_COMMENT),
   authors |-> IF "authors" \in alt THEN <<[memberId |-> PyStr(<<"x", "y">>)]>>
               ELSE <<[memberId |-> PyStr(<<"a", "b", "c">>)]>>]

FullNotification == NotificationPayload(1, {})

\* A live broadcast payload: fields of the media base record and the chat
\* message count.
FullLive ==
  [postId |-> PyStr(<<"4", "-", "1">>),
   title |-> PyStr(<<"L", "I", "V", "E">>),
   extension |-> [mediaInfo |-> [chat |-> [messageCount |-> PyInt(7)]]]]

\* d without the key that the path p leads to.
RECURSIVE Remove(_, _)
Remove(d, p) ==
  IF Head(p) \notin DOMAIN d THEN d
  ELSE IF Len(p) = 1 THEN [k \in DOMAIN d \ {Head(p)} |-> d[k]]
       ELSE [k \in DOMAIN d |->
               IF k = Head(p) THEN Remove(d[k], Tail(p)) ELSE d[k]]

RECURSIVE RemoveAll(_, _)
RemoveAll(d, paths) ==
  IF paths = {} THEN d
  ELSE LET p == CHOOSE q \in paths : TRUE
       IN  RemoveAll(Remove(d, p), paths \ {p})

\* Every key of a notification payload that can be missing.
NotificationKeys ==
  { <<"activityId">>, <<"read">>, <<"title">>, <<"message">>,
    <<"message", "values">>, <<"message", "values", "ko">>,
    <<"message", "values", "ja">>, <<"message", "values", "en">>,
    <<"logoImageUrl">>, <<"imageUrl">>, <<"webUrl">>, <<"time">>,
    <<"count">>, <<"community">>, <<"community", "communityId">>,
    <<"messageId">>, <<"authors">> }

LiveKeys ==
  { <<"postId">>, <<"title">>, <<"extension">>, <<"extension", "mediaInfo">>,
    <<"extension", "mediaInfo", "chat">>,
    <<"extension", "mediaInfo", "chat", "messageCount">> }

AtMost(S, n) == {T \in SUBSET S : Cardinality(T) <= n}

\* The elements an authors list is made of: two with a memberId and one
\* without.
AuthorElements ==
  { [memberId |-> PyStr(<<"a", "b", "c">>)],
    [memberId |-> PyStr(<<"x", "y">>)],
    [artistName |-> PyStr(<<"n">>)] }

RECURSIVE AuthorLists(_)
AuthorLists(n) ==
  IF n = 0 THEN {<<>>}
  ELSE LET shorter == AuthorLists(n - 1)
       IN  shorter \cup {Append(l, a) : l \in shorter, a \in AuthorElements}

\* The payloads of SpecPayload: the complete notification payload less at
\* most MaxMissing keys, the complete one with each authors list, and the
\* live payload less at most MaxMissing keys.
Payloads ==
  {RemoveAll(FullNotification, S) : S \in AtMost(NotificationKeys, MaxMissing)}
    \cup {[FullNotification EXCEPT !["authors"] = l] : l \in AuthorLists(MaxAuthors)}
    \cup {RemoveAll(FullLive, S) : S \in AtMost(LiveKeys, MaxMissing)}

\* The values other than notifications that a notification is compared to.
OtherValues(self) ==
  { PyInt(5), PyInt(self.id.v), PyStr(<<"5">>), PyBool(TRUE), None,
    Live_init(FullLive, FALSE).value }

----------------------------------------------------------------------------
(* The operations. `last` records the latest one: the operation, the slot  *)
(* of the payload or object it was applied to, its argument, and what it   *)
(* raised or returned.                                                     *)

NoOperation ==
  [op |-> "none", self |-> 0, arg |-> None, exc |-> "none", value |-> NoValue]

Result(op, self, arg, r) ==
  [op |-> op, self |-> self, arg |-> arg, exc |-> r.exc, value |-> r.value]

\* Notification(data[i]): the object is kept when the constructor returns.
NewNotification ==
  \E i \in DOMAIN data :
    LET r == Notification_init(data[i])
    IN  /\ last' = Result("Notification", i, None, r)
        /\ objs' = IF r.exc = "none" THEN (i :> r.value) @@ objs ELSE objs
        /\ UNCHANGED data

\* Live(data[i])
NewLive ==
  \E i \in DOMAIN data, baseRaises \in BOOLEAN :
    LET r == Live_init(data[i], baseRaises)
    IN  /\ last' = Result("Live", i, PyBool(baseRaises), r)
        /\ objs' = IF r.exc = "none" THEN (i :> r.value) @@ objs ELSE objs
        /\ UNCHANGED data

\* objs[i] == objs[j]
Eq ==
  \E i \in DOMAIN objs, j \in DOMAIN objs :
    /\ IsNotification(objs[i])
    /\ last' = Result("__eq__", i, objs[j], Notification_eq(objs[i], objs[j]))
    /\ UNCHANGED <<data, objs>>

\* objs[i] == v for a value v that is no notification
EqValue ==
  \E i \in DOMAIN objs :
    /\ IsNotification(objs[i])
    /\ \E v \in OtherValues(objs[i]) :
         last' = Result("__eq__", i, v, Notification_eq(objs[i], v))
    /\ UNCHANGED <<data, objs>>

\* hash(objs[i])
Hash ==
  \E i \in DOMAIN objs :
    /\ IsNotification(objs[i])
    /\ last' = Result("__hash__", i, None, Notification_hash(objs[i]))
    /\ UNCHANGED <<data, objs>>

\* objs[i].post_id
PostId ==
  \E i \in DOMAIN objs :
    /\ IsNotification(objs[i])
    /\ last' = Result("post_id", i, None, post_id(objs[i]))
    /\ UNCHANGED <<data, objs>>

\* objs[i].post_type
PostType ==
  \E i \in DOMAIN objs :
    /\ IsNotification(objs[i])
    /\ last' = Result("post_type", i, None, post_type(objs[i]))
    /\ UNCHANGED <<data, objs>>

\* objs[i].author_id
AuthorId ==
  \E i \in DOMAIN objs :
    /\ IsNotification(objs[i])
    /\ last' = Result("author_id", i, None, author_id(objs[i]))
    /\ UNCHANGED <<data, objs>>

----------------------------------------------------------------------------
(* Specifications. *)

NoObjects == [i \in {} |-> None]

\* The sets of field groups in which the second payload differs from the
\* first: none, one, two, or all of them.
Differences == AtMost(FieldGroups, 2) \cup {FieldGroups}

\* Two notification payloads: the first with the default value of every
\* field, the second differing from it in a set of field groups.
InitEq ==
  /\ \E id1 \in Ids, id2 \in Ids, alt \in Differences :
       data = (1 :> NotificationPayload(id1, {})) @@ (2 :> NotificationPayload(id2, alt))
  /\ objs = NoObjects
  /\ last = NoOperation

NextEq == NewNotification \/ Eq \/ EqValue \/ Hash

SpecEq == InitEq /\ [][NextEq]_vars

\* One notification payload, complete but for its messageId, which is
\* absent or any concatenation of at most MaxParts fragments.
InitPost ==
  /\ \/ data = (1 :> Remove(FullNotification, <<"messageId">>))
     \/ \E s \in MessageIds(MaxParts) :
          data = (1 :> [FullNotification EXCEPT !["messageId"] = PyStr(s)])
  /\ objs = NoObjects
  /\ last = NoOperation

NextPost == NewNotification \/ PostId \/ PostType

SpecPost == InitPost /\ [][NextPost]_vars

\* One payload, of a notification or of a live broadcast, with keys
\* missing.
InitPayload ==
  /\ \E p \in Payloads : data = (1 :> p)
  /\ objs = NoObjects
  /\ last = NoOperation

NextPayload == NewNotification \/ NewLive \/ AuthorId

SpecPayload == InitPayload /\ [][NextPayload]_vars

Init == InitEq \/ InitPost \/ InitPayload

Next == NewNotification \/ NewLive \/ Eq \/ EqValue \/ Hash \/ PostId \/ PostType \/ AuthorId

Spec == Init /\ [][Next]_vars

----------------------------------------------------------------------------
(* Properties. *)

\* The payload the latest operation was applied to.
LastData == data[last.self]

\* Two payloads that agree on activityId and differ under every other key.
DifferEverywhereButId(p, q) ==
  /\ p["activityId"] = q["activityId"]
  /\ DOMAIN p = DOMAIN q
  /\ \A k \in DOMAIN p \ {"activityId"} : p[k] # q[k]

\* C1: a == b, for notifications a and b built from payloads P and P2,
\* returns True when P["activityId"] equals P2["activityId"] and False when
\* it does not, whatever the other fields of the two payloads hold.
TheoremC1 ==
  (last.op = "__eq__" /\ IsNotification(last.arg)) =>
    /\ last.exc = "none"
    /\ last.value = PyBool(LastData["activityId"] = last.arg.data["activityId"])

\* a == b returned True for two payloads that differ in every field but
\* activityId.
WitnessC1 ==
  /\ last.op = "__eq__"
  /\ IsNotification(last.arg)
  /\ DifferEverywhereButId(LastData, last.arg.data)
  /\ last.value = PyBool(TRUE)

\* C2: comparing a notification with a value that is no notification, an
\* int equal to its id included, raises; it returns neither True nor False.
TheoremC2 ==
  (last.op = "__eq__" /\ ~IsNotification(last.arg)) =>
    /\ last.exc = "NotImplementedError"
    /\ last.value \notin {PyBool(TRUE), PyBool(FALSE)}

\* A notification was compared with the int that equals its id.
WitnessC2 ==
  /\ last.op = "__eq__"
  /\ last.arg = PyInt(LastData["activityId"].v)
  /\ last.exc = "NotImplementedError"

\* C3: hash(a) is returned, and every notification b with the id of a, and
\* every b with a == b, has the hash of a.
TheoremC3 ==
  (last.op = "__hash__") =>
    /\ last.exc = "none"
    /\ \A j \in DOMAIN objs :
         /\ data[j]["activityId"] = LastData["activityId"]
              => Notification_hash(objs[j]) = Return(last.value)
         /\ Notification_eq(objs[last.self], objs[j]) = Return(PyBool(TRUE))
              => Notification_hash(objs[j]) = Return(last.value)

\* hash(a) was taken while another notification exists whose payload
\* differs from that of a in every field but activityId.
WitnessC3 ==
  /\ last.op = "__hash__"
  /\ \E j \in DOMAIN objs :
       /\ j # last.self
       /\ DifferEverywhereButId(LastData, data[j])
       /\ Notification_hash(objs[j]) = Return(last.value)

\* The marker table as the specification declares it: the markers in their
\* declared order, each with the name of the enum member it maps to.
DeclaredMarkers ==
  << [marker |-> Str_T_FEED_COMMENT, type |-> "USER_POST_COMMENT"],
     [marker |-> Str_ST_FEED_COMMENT, type |-> "USER_POST_COMMENT"],
     [marker |-> Str__MEDIA_COMMENT, type |-> "MEDIA_COMMENT"],
     [marker |-> Str__MOMENT_COMMENT, type |-> "MOMENT_COMMENT"],
     [marker |-> Str_MOMENT_COMMENT, type |-> "MOMENT_COMMENT"],
     [marker |-> Str_ARTIST_COMMENT, type |-> "ARTIST_POST_COMMENT"],
     [marker |-> Str_ARTIST_POST, type |-> "POST"],
     [marker |-> Str_ARTIST_MOMENT, type |-> "MOMENT"],
     [marker |-> Str_ARTIST_LIVE_ON_AIR, type |-> "LIVE"],
     [marker |-> Str_COMMUNITY_MEDIA, type |-> "MEDIA"],
     [marker |-> Str_NOTICE, type |-> "NOTICE"],
     [marker |-> Str_COMMUNITY_ANNIVERSARY, type |-> "BIRTHDAY"] >>

\* k occurs in s: s is some i characters, then k, then the rest.
OccursIn(k, s) ==
  \E i \in 0..(Len(s) - Len(k)) : \A j \in 1..Len(k) : s[i + j] = k[j]

\* The places in DeclaredMarkers of the markers that occur in s.
MarkersIn(s) ==
  {n \in 1..Len(DeclaredMarkers) : OccursIn(DeclaredMarkers[n].marker, s)}

\* C4: for a payload with a messageId, post_type returns the enum member of
\* the earliest declared marker that occurs in messageId, and the string
\* "NOT IMPLEMENTED", without raising, when no marker occurs in it.
TheoremC4 ==
  (last.op = "post_type" /\ "messageId" \in DOMAIN LastData) =>
    /\ last.exc = "none"
    /\ LET hits == MarkersIn(LastData["messageId"].v)
       IN  IF hits = {} THEN last.value = NOT_IMPLEMENTED
           ELSE \E n \in hits :
                  /\ \A m \in hits : n <= m
                  /\ last.value = PostTypes(DeclaredMarkers[n].type)

\* post_type was read of a messageId in which markers of two different
\* types occur.
WitnessC4 ==
  /\ last.op = "post_type"
  /\ "messageId" \in DOMAIN LastData
  /\ last.exc = "none"
  /\ \E n, m \in MarkersIn(LastData["messageId"].v) :
       /\ n < m
       /\ DeclaredMarkers[n].type # DeclaredMarkers[m].type
       /\ last.value = PostTypes(DeclaredMarkers[n].type)

HasDigit(s) == \E i \in 1..Len(s) : s[i] \in Digits

\* A digit at index i of s, then a hyphen, then a digit.
DashAt(s, i) ==
  /\ i + 2 <= Len(s)
  /\ s[i] \in Digits
  /\ s[i + 1] = "-"
  /\ s[i + 2] \in Digits

\* s[a..b] are digits and no digit follows them.
IsDigitRun(s, a, b) ==
  /\ a <= b
  /\ b <= Len(s)
  /\ \A k \in a..b : s[k] \in Digits
  /\ b = Len(s) \/ s[b + 1] \notin Digits

\* r is what post_id is said to return for the messageId s.
IsPostIdOf(s, r) ==
  IF \E i \in 1..Len(s) : DashAt(s, i)
  THEN \E i \in 1..Len(s) :
         /\ DashAt(s, i)
         /\ \A k \in 1..(i - 1) : ~DashAt(s, k)
         /\ \E b \in (i + 2)..Len(s) :
              IsDigitRun(s, i + 2, b) /\ r = SubSeq(s, i, b)
  ELSE \E a \in 1..Len(s) :
         /\ s[a] \in Digits
         /\ \A k \in 1..(a - 1) : s[k] \notin Digits
         /\ \E b \in a..Len(s) : IsDigitRun(s, a, b) /\ r = SubSeq(s, a, b)

\* C5: for a messageId with a digit in it, post_id returns the leftmost
\* digit-hyphen-digits occurrence (one digit, the hyphen, the whole run of
\* digits after it) when there is one, and otherwise the first run of
\* digits.
TheoremC5 ==
  (/\ last.op = "post_id"
   /\ "messageId" \in DOMAIN LastData
   /\ HasDigit(LastData["messageId"].v)) =>
    /\ last.exc = "none"
    /\ last.value.t = "str"
    /\ IsPostIdOf(LastData["messageId"].v, last.value.v)

\* post_id was read of "0-12_MEDIA_COMMENT" and returned "0-12".
WitnessC5 ==
  /\ last.op = "post_id"
  /\ "messageId" \in DOMAIN LastData
  /\ LastData["messageId"] = PyStr(Str_0_12_MEDIA_COMMENT)
  /\ last.value = PyStr(Str_0_12)

\* The authors list is present, is not empty, and its first element has no
\* memberId.
FirstAuthorLacksMemberId(d) ==
  /\ "authors" \in DOMAIN d
  /\ Len(d["authors"]) > 0
  /\ "memberId" \notin DOMAIN d["authors"][1]

AuthorIdNeverRaises == (last.op = "author_id") => last.exc = "none"

\* C7, amended: reading author_id raises KeyError when the first element of
\* a non-empty authors list has no memberId, and in no other case.
TheoremC7 ==
  (last.op = "author_id") =>
    IF FirstAuthorLacksMemberId(LastData)
    THEN last.exc = "KeyError" /\ last.value = NoValue
    ELSE last.exc = "none"

\* author_id was read of a list whose first element has no memberId.
WitnessC7 ==
  /\ last.op = "author_id"
  /\ FirstAuthorLacksMemberId(LastData)
  /\ last.exc = "KeyError"

\* The paths a notification payload is required to have.
RequiredOfNotification ==
  { <<"activityId">>, <<"read">>, <<"title">>,
    <<"message", "values", "ko">>, <<"message", "values", "ja">>,
    <<"message", "values", "en">>, <<"logoImageUrl">>, <<"webUrl">>,
    <<"time">>, <<"count">>, <<"community", "communityId">> }

RequiredOfLive == <<"extension", "mediaInfo", "chat", "messageCount">>

IsComplete(d) == \A p \in RequiredOfNotification : HasPath(d, p)

\* C8: constructing a Notification from a payload that lacks a required
\* path, or a Live from a payload that lacks a key along
\* extension.mediaInfo.chat.messageCount, raises KeyError and yields no
\* object: no object exists that was built from such a payload.
TheoremC8 ==
  /\ (last.op = "Notification" /\ ~IsComplete(LastData)) =>
       last.exc = "KeyError" /\ last.value = NoValue
  /\ (last.op = "Live" /\ ~HasPath(LastData, RequiredOfLive)) =>
       last.exc = "KeyError" /\ last.value = NoValue
  /\ \A i \in DOMAIN objs :
       IF IsNotification(objs[i]) THEN IsComplete(data[i])
       ELSE HasPath(data[i], RequiredOfLive)

\* A Notification was constructed from a payload that has message.values
\* but no ko under it.
WitnessC8 ==
  /\ last.op = "Notification"
  /\ HasPath(LastData, <<"message", "values">>)
  /\ ~HasPath(LastData, <<"message", "values", "ko">>)
  /\ last.exc = "KeyError"

\* The fields of a notification, each with the path it is read from.
FieldSources ==
  { <<"id", <<"activityId">> >>, <<"is_read", <<"read">> >>,
    <<"title", <<"title">> >>,
    <<"message_ko", <<"message", "values", "ko">> >>,
    <<"message_ja", <<"message", "values", "ja">> >>,
    <<"message_en", <<"message", "values", "en">> >>,
    <<"logo_image_url", <<"logoImageUrl">> >>, <<"web_url", <<"webUrl">> >>,
    <<"time_created", <<"time">> >>, <<"count", <<"count">> >>,
    <<"community_id", <<"community", "communityId">> >> }

\* C9: a payload with every required path constructs a Notification,
\* whether or not it has imageUrl, authors and messageId; image_url is the
\* value under imageUrl, None when the key is absent, and every other field
\* is the value at its path.
TheoremC9 ==
  (last.op = "Notification" /\ IsComplete(LastData)) =>
    /\ last.exc = "none"
    /\ last.value.image_url =
         IF "imageUrl" \in DOMAIN LastData THEN LastData["imageUrl"] ELSE None
    /\ \A f \in FieldSources : last.value[f[1]] = Lookup(LastData, f[2])

\* A Notification was constructed from a payload without imageUrl, authors
\* and messageId.
WitnessC9 ==
  /\ last.op = "Notification"
  /\ IsComplete(LastData)
  /\ DOMAIN LastData \cap {"imageUrl", "authors", "messageId"} = {}
  /\ last.exc = "none"
  /\ last.value.image_url = None

\* C10: reading post_id of a constructed notification raises, and returns
\* nothing, when the payload has no messageId (KeyError) and when its
\* messageId has no digit in it (AttributeError).
TheoremC10 ==
  (last.op = "post_id") =>
    /\ last.self \in DOMAIN objs
    /\ IsNotification(objs[last.self])
    /\ "messageId" \notin DOMAIN LastData =>
         last.exc = "KeyError" /\ last.value = NoValue
    /\ ("messageId" \in DOMAIN LastData /\ ~HasDigit(LastData["messageId"].v)) =>
         last.exc = "AttributeError" /\ last.value = NoValue

\* post_id was read of a messageId that is not empty and has no digit.
WitnessC10 ==
  /\ last.op = "post_id"
  /\ "messageId" \in DOMAIN LastData
  /\ Len(LastData["messageId"].v) > 0
  /\ ~HasDigit(LastData["messageId"].v)
  /\ last.exc = "AttributeError"

====
